---------------------------- MODULE Spec2Model ----------------------------
(***************************************************************************)
(* A model of the algorithms crate: the Aho-Corasick PatternFinder         *)
(* (src/src/aho_corasick.rs), the BinarySearchTree                         *)
(* (src/src/binary_search_tree.rs) and the three sorts (merge_sort.rs,     *)
(* quick_sort.rs, heap_sort.rs).                                           *)
(*                                                                         *)
(* Strings are sequences of Unicode scalar values (Rust char), written as  *)
(* their code points.  A String's len() and the indices of char_indices()  *)
(* are counted in UTF-8 bytes, so the model keeps the encoded width of     *)
(* every symbol (LenUtf8).                                                 *)
(***************************************************************************)
EXTENDS Integers, Sequences, FiniteSets, TLC

VARIABLES
    pc,         \* where the PatternFinder program is
    patterns,   \* the Vec<String> given to PatternFinder::new
    pending,    \* the patterns the for loop of new() has not yet added
    states,     \* the State objects, in order of creation; states[Root] is root_state
    queue,      \* the VecDeque of set_fail_states
    enqueued,   \* history: how often each state was pushed on the queue
    cur,        \* the state whose next_states a for loop of set_fail_states iterates
    todo,       \* the children that loop has not visited yet
    text,       \* the text given to find_patterns
    pos,        \* 1-based position of the next symbol of text
    state,      \* the current state of find_patterns
    result,     \* the HashMap<String, Vec<usize>> find_patterns builds
    bst,        \* the BinarySearchTree
    bst_op,     \* history: the last call on it, with the tree before the call
    inserted,   \* history: the items inserted and not deleted since
    sort_pc,    \* which sort runs or has returned ("idle" before the call)
    sort_input, \* the slice before the call
    sort_output,\* the slice, sorted in place
    sort_stack, \* the calls of quick_sort still to run, as ranges of the slice
    sort_calls  \* history: the calls of quick_sort entered so far

vars == <<pc, patterns, pending, states, queue, enqueued, cur, todo, text, pos, state,
          result,
          bst, bst_op, inserted, sort_pc, sort_input, sort_output, sort_stack, sort_calls>>

acVars == <<pc, patterns, pending, states, queue, enqueued, cur, todo, text, pos, state,
            result>>

bstVars == <<bst, bst_op, inserted>>

sortVars == <<sort_pc, sort_input, sort_output, sort_stack, sort_calls>>

---------------------------------------------------------------------------
(* Bounds of the model. *)

MaxPatterns == 3

MaxPatternLen == 3

\* The symbols of all the patterns of a list together.
MaxTotalLen == 4

MaxTextLen == 3

\* usize is checked at a width of UsizeBits bits: TLC's integers are 32 bits
\* wide, and every width above the longest text gives the same wrapped order.
UsizeBits == 16

\* 'a' (one byte in UTF-8) and U+00E9 (two bytes).
Alphabet == {97, 233}

Range(s) == {s[k] : k \in DOMAIN s}

RECURSIVE SeqsUpTo(_, _)
SeqsUpTo(S, n) ==
    IF n = 0 THEN {<<>>}
    ELSE LET shorter == SeqsUpTo(S, n - 1)
         IN  shorter \cup {Append(s, x) : s \in shorter, x \in S}

Strings == SeqsUpTo(Alphabet, MaxPatternLen)

\* The lists of at most count patterns that hold at most total symbols.
RECURSIVE PatternLists(_, _)
PatternLists(count, total) ==
    IF count = 0 THEN {<<>>}
    ELSE {<<>>} \cup
         UNION {{<<s>> \o rest : rest \in PatternLists(count - 1, total - Len(s))} :
                s \in {x \in Strings : Len(x) <= total}}

Texts == SeqsUpTo(Alphabet, MaxTextLen)

---------------------------------------------------------------------------
(* Strings and usize. *)

\* char::len_utf8: the number of bytes of a symbol in a String.
LenUtf8(c) ==
    IF c < 128 THEN 1 ELSE IF c < 2048 THEN 2 ELSE IF c < 65536 THEN 3 ELSE 4

\* String::len of s[1..n]: bytes, not symbols.
RECURSIVE PrefixBytes(_, _)
PrefixBytes(s, n) ==
    IF n = 0 THEN 0 ELSE PrefixBytes(s, n - 1) + LenUtf8(s[n])

StrLen(s) == PrefixBytes(s, Len(s))

\* The index char_indices() gives with the k-th symbol (k from 1): the byte
\* at which the symbol starts.
CharIndex(s, k) == PrefixBytes(s, k - 1)

UsizeModulus == 2 ^ UsizeBits

\* a - b on usize without overflow checks (release profile).
WrappingSub(a, b) == (a - b) % UsizeModulus

---------------------------------------------------------------------------
(* The automaton. *)

None == 0

Root == 1

NewState(c) ==
    [value |-> c, fail_state |-> None, next_states |-> <<>>, output |-> {}]

\* HashMap::insert on next_states: an existing entry is replaced.
MapInsert(m, c, id) ==
    [x \in DOMAIN m \cup {c} |-> IF x = c THEN id ELSE m[x]]

NextStateNoFail(S, s, c) ==
    IF c \in DOMAIN S[s].next_states THEN S[s].next_states[c] ELSE None

\* State::next_state
RECURSIVE NextState(_, _, _)
NextState(S, s, c) ==
    IF c \in DOMAIN S[s].next_states THEN S[s].next_states[c]
    ELSE IF S[s].fail_state # None THEN NextState(S, S[s].fail_state, c)
    ELSE None

SetFailStateNoMerge(S, s, f) == [S EXCEPT ![s].fail_state = f]

\* State::set_fail_state
SetFailState(S, s, f) ==
    [S EXCEPT ![s].fail_state = f, ![s].output = @ \cup S[f].output]

AddPatternLookupNever(S, s, c) == None

\* The lookup of add_pattern's loop body.
AddPatternLookup(S, s, c) == NextState(S, s, c)

\* add_pattern from the k-th symbol on, standing at state s.
RECURSIVE AddPatternFrom(_, _, _, _)
AddPatternFrom(S, s, pattern, k) ==
    IF k > Len(pattern)
    THEN [S EXCEPT ![s].output = @ \cup {pattern}]
    ELSE LET c == pattern[k]
             found == AddPatternLookup(S, s, c)
             id == Len(S) + 1
             grown == Append([S EXCEPT ![s].next_states = MapInsert(@, c, id)],
                             NewState(c))
         IN  IF found # None
             THEN AddPatternFrom(S, found, pattern, k + 1)
             ELSE AddPatternFrom(grown, id, pattern, k + 1)

\* PatternFinder::add_pattern
AddPattern(S, pattern) == AddPatternFrom(S, Root, pattern, 1)

\* The calls State::next_state makes for one lookup, itself included.
RECURSIVE NextStateCalls(_, _, _)
NextStateCalls(S, s, c) ==
    IF c \in DOMAIN S[s].next_states THEN 1
    ELSE IF S[s].fail_state # None THEN 1 + NextStateCalls(S, S[s].fail_state, c)
    ELSE 1

Children(S, s) == Range(S[s].next_states)

\* How often x was counted in the tally b.
CountOf(b, x) == IF x \in DOMAIN b THEN b[x] ELSE 0

\* The tally b with x counted once more.
Counted(b, x) == [y \in DOMAIN b \cup {x} |-> CountOf(b, y) + IF y = x THEN 1 ELSE 0]

SetFailChildToSelf(S, s, child) == SetFailState(S, child, child)

SetFailChildToRoot(S, s, child) == SetFailState(S, child, Root)

\* The body of the while loop's for loop for one child of state s.
SetFailChild(S, s, child) ==
    LET fail_state == NextState(S, S[s].fail_state, S[child].value)
    IN  IF fail_state # None
        THEN SetFailState(S, child, fail_state)
        ELSE SetFailState(S, child, Root)

---------------------------------------------------------------------------
(* find_patterns. *)

\* The patterns for which 1 + i - pattern.len() goes below zero.
Underflows(out, i) == {p \in out : 1 + i < StrLen(p)}

\* result.entry(pattern).or_default().push(offset)
Push(res, pattern, offset) ==
    [p \in DOMAIN res \cup {pattern} |->
        IF p = pattern
        THEN Append(IF pattern \in DOMAIN res THEN res[pattern] ELSE <<>>, offset)
        ELSE res[p]]

\* The orders in which a HashSet or the values of a HashMap may be iterated.
RECURSIVE Orders(_)
Orders(set) ==
    IF set = {} THEN {<<>>}
    ELSE UNION {{<<x>> \o rest : rest \in Orders(set \ {x})} : x \in set}

\* The for loop over new_state.output, iterated in the given order, for the
\* symbol at byte index i.
RECURSIVE RecordMatches(_, _, _)
RecordMatches(res, order, i) ==
    IF order = <<>> THEN res
    ELSE LET pattern == Head(order)
         IN  RecordMatches(Push(res, pattern, WrappingSub(1 + i, StrLen(pattern))),
                           Tail(order), i)

---------------------------------------------------------------------------
(* The PatternFinder program: new(patterns), then calls of find_patterns. *)

InitAC ==
    /\ pc = "new"
    /\ patterns \in PatternLists(MaxPatterns, MaxTotalLen)
    /\ pending = patterns
    /\ states = <<NewState(0)>>
    /\ queue = <<>>
    /\ enqueued = <<>>
    /\ cur = None
    /\ todo = {}
    /\ text = <<>>
    /\ pos = 1
    /\ state = Root
    /\ result = <<>>

\* One round of `for pattern in patterns`.
AddPatternStep ==
    /\ pc = "new"
    /\ pending # <<>>
    /\ states' = AddPattern(states, Head(pending))
    /\ pending' = Tail(pending)
    /\ UNCHANGED <<pc, patterns, queue, cur, todo, text, pos, state, result>>
    /\ UNCHANGED enqueued
    /\ UNCHANGED <<bstVars, sortVars>>

\* set_fail_states is entered: the first for loop starts on root's children.
SetFailStatesBegin ==
    /\ pc = "new"
    /\ pending = <<>>
    /\ pc' = "fail_root"
    /\ cur' = Root
    /\ todo' = Children(states, Root)
    /\ UNCHANGED <<patterns, pending, states, queue, text, pos, state, result>>
    /\ UNCHANGED enqueued
    /\ UNCHANGED <<bstVars, sortVars>>

\* One round of the first for loop; HashMap::values() visits in any order.
SetFailRootChild ==
    /\ pc = "fail_root"
    /\ \E child \in todo :
        /\ states' = SetFailState(states, child, Root)
        /\ queue' = Append(queue, child)
        /\ enqueued' = Counted(enqueued, child)
        /\ todo' = todo \ {child}
    /\ UNCHANGED <<pc, patterns, pending, cur, text, pos, state, result>>
    /\ UNCHANGED <<bstVars, sortVars>>

SetFailPopBack ==
    /\ pc \in {"fail_root", "fail_loop"}
    /\ todo = {}
    /\ queue # <<>>
    /\ pc' = "fail_loop"
    /\ cur' = queue[Len(queue)]
    /\ queue' = SubSeq(queue, 1, Len(queue) - 1)
    /\ todo' = Children(states, queue[Len(queue)])
    /\ UNCHANGED <<patterns, pending, states, text, pos, state, result>>
    /\ UNCHANGED enqueued
    /\ UNCHANGED <<bstVars, sortVars>>

\* queue.pop_front(), and the for loop starts on the state's children.
SetFailPop ==
    /\ pc \in {"fail_root", "fail_loop"}
    /\ todo = {}
    /\ queue # <<>>
    /\ pc' = "fail_loop"
    /\ cur' = Head(queue)
    /\ queue' = Tail(queue)
    /\ todo' = Children(states, Head(queue))
    /\ UNCHANGED <<patterns, pending, states, text, pos, state, result>>
    /\ UNCHANGED enqueued
    /\ UNCHANGED <<bstVars, sortVars>>

\* One round of the for loop over the children of the dequeued state.
SetFailChildStep ==
    /\ pc = "fail_loop"
    /\ \E child \in todo :
        /\ queue' = Append(queue, child)
        /\ enqueued' = Counted(enqueued, child)
        /\ states' = SetFailChild(states, cur, child)
        /\ todo' = todo \ {child}
    /\ UNCHANGED <<pc, patterns, pending, cur, text, pos, state, result>>
    /\ UNCHANGED <<bstVars, sortVars>>

\* The queue is empty: set_fail_states and new() return.
NewReturn ==
    /\ pc \in {"fail_root", "fail_loop"}
    /\ todo = {}
    /\ queue = <<>>
    /\ pc' = "built"
    /\ cur' = None
    /\ UNCHANGED <<patterns, pending, states, queue, todo, text, pos, state, result>>
    /\ UNCHANGED enqueued
    /\ UNCHANGED <<bstVars, sortVars>>

\* find_patterns(text) is called on the finder new() returned, for the first
\* time or again.
FindPatternsCall ==
    /\ pc \in {"built", "reusable"}
    /\ \E t \in Texts : text' = t
    /\ pc' = "finding"
    /\ pos' = 1
    /\ state' = Root
    /\ result' = <<>>
    /\ UNCHANGED <<patterns, pending, states, queue, cur, todo>>
    /\ UNCHANGED enqueued
    /\ UNCHANGED <<bstVars, sortVars>>

\* One round of `for (i, c) in text.char_indices()`.  When the subtraction
\* goes below zero the build decides: with overflow checks (dev and test
\* profiles) the call panics and its map is lost, without them (release) the
\* value wraps.
FindStep ==
    /\ pc = "finding"
    /\ pos <= Len(text)
    /\ LET c == text[pos]
           i == CharIndex(text, pos)
           new_state == NextState(states, state, c)
       IN  IF new_state # None
           THEN \E overflow_checks \in
                    IF Underflows(states[new_state].output, i) = {}
                    THEN {FALSE} ELSE BOOLEAN :
                    IF overflow_checks
                    THEN /\ pc' = "panicked"
                         /\ result' = <<>>
                         /\ UNCHANGED <<state, pos>>
                    ELSE /\ \E order \in Orders(states[new_state].output) :
                                result' = RecordMatches(result, order, i)
                         /\ state' = new_state
                         /\ pos' = pos + 1
                         /\ pc' = pc
           ELSE /\ state' = Root
                /\ pos' = pos + 1
                /\ UNCHANGED <<pc, result>>
    /\ UNCHANGED <<patterns, pending, states, queue, cur, todo, text>>
    /\ UNCHANGED enqueued
    /\ UNCHANGED <<bstVars, sortVars>>

FindReturnClearsOutputs ==
    /\ pc = "finding"
    /\ pos > Len(text)
    /\ pc' = "done"
    /\ states' = [s \in DOMAIN states |-> [states[s] EXCEPT !.output = {}]]
    /\ UNCHANGED <<patterns, pending, queue, cur, todo, text, pos, state, result>>
    /\ UNCHANGED enqueued
    /\ UNCHANGED <<bstVars, sortVars>>

\* The text is consumed: find_patterns returns result.
FindReturn ==
    /\ pc = "finding"
    /\ pos > Len(text)
    /\ pc' = "done"
    /\ UNCHANGED <<patterns, pending, states, queue, cur, todo, text, pos, state, result>>
    /\ UNCHANGED enqueued
    /\ UNCHANGED <<bstVars, sortVars>>


---------------------------------------------------------------------------
(* new() and find_patterns() as functions of their arguments, with the     *)
(* HashMap iteration order fixed by CHOOSE.                                *)

\* One of Orders(set).
RECURSIVE AnyOrder(_)
AnyOrder(set) ==
    IF set = {} THEN <<>>
    ELSE LET x == CHOOSE y \in set : TRUE
         IN  <<x>> \o AnyOrder(set \ {x})

RECURSIVE AddPatterns(_, _)
AddPatterns(S, list) ==
    IF list = <<>> THEN S ELSE AddPatterns(AddPattern(S, Head(list)), Tail(list))

\* The first for loop of set_fail_states; gives the states and the queue.
RECURSIVE SetFailRootLoop(_, _, _)
SetFailRootLoop(S, q, children) ==
    IF children = {} THEN [states |-> S, queue |-> q]
    ELSE LET child == CHOOSE x \in children : TRUE
         IN  SetFailRootLoop(SetFailState(S, child, Root), Append(q, child),
                             children \ {child})

\* The for loop over the children of the dequeued state s.
RECURSIVE SetFailChildLoop(_, _, _, _)
SetFailChildLoop(S, q, s, children) ==
    IF children = {} THEN [states |-> S, queue |-> q]
    ELSE LET child == CHOOSE x \in children : TRUE
         IN  SetFailChildLoop(SetFailChild(S, s, child), Append(q, child), s,
                              children \ {child})

\* The while loop of set_fail_states.
RECURSIVE SetFailWhile(_, _)
SetFailWhile(S, q) ==
    IF q = <<>> THEN S
    ELSE LET r == SetFailChildLoop(S, Tail(q), Head(q), Children(S, Head(q)))
         IN  SetFailWhile(r.states, r.queue)

\* PatternFinder::set_fail_states
SetFailStates(S) ==
    LET r == SetFailRootLoop(S, <<>>, Children(S, Root))
    IN  SetFailWhile(r.states, r.queue)

\* PatternFinder::new
PatternFinderNew(list) == SetFailStates(AddPatterns(<<NewState(0)>>, list))

\* find_patterns from the k-th symbol on; overflow set when a subtraction
\* went below zero (the call panics under overflow checks, else result holds
\* the wrapped values).
RECURSIVE FindFrom(_, _, _, _, _, _)
FindFrom(S, t, k, s, res, overflow) ==
    IF k > Len(t) THEN [result |-> res, overflow |-> overflow]
    ELSE LET i == CharIndex(t, k)
             new_state == NextState(S, s, t[k])
         IN  IF new_state # None
             THEN FindFrom(S, t, k + 1, new_state,
                           RecordMatches(res, AnyOrder(S[new_state].output), i),
                           overflow \/ Underflows(S[new_state].output, i) # {})
             ELSE FindFrom(S, t, k + 1, Root, res, overflow)

\* PatternFinder::find_patterns
FindPatterns(S, t) == FindFrom(S, t, 1, Root, <<>>, FALSE)

\* The caller is done with the returned map; the finder can be called again.
FinderReused ==
    /\ pc = "done"
    /\ pc' = "reusable"
    /\ text' = <<>>
    /\ pos' = 1
    /\ state' = Root
    /\ result' = <<>>
    /\ UNCHANGED <<patterns, pending, states, queue, cur, todo>>
    /\ UNCHANGED enqueued
    /\ UNCHANGED <<bstVars, sortVars>>

IdleAC ==
    /\ pc = "new"
    /\ patterns = <<>>
    /\ pending = <<>>
    /\ states = <<NewState(0)>>
    /\ queue = <<>>
    /\ enqueued = <<>>
    /\ cur = None
    /\ todo = {}
    /\ text = <<>>
    /\ pos = 1
    /\ state = Root
    /\ result = <<>>

NoCall == [op |-> "new", item |-> 0, before |-> <<>>, found |-> FALSE]

IdleBST == bst = <<>> /\ bst_op = NoCall /\ inserted = {}

IdleSort ==
    /\ sort_pc = "idle"
    /\ sort_input = <<>>
    /\ sort_output = <<>>
    /\ sort_stack = <<>>
    /\ sort_calls = 0

Init == InitAC /\ IdleBST /\ IdleSort

Next ==
    \/ AddPatternStep
    \/ SetFailStatesBegin
    \/ SetFailRootChild
    \/ SetFailPop
    \/ SetFailChildStep
    \/ NewReturn
    \/ FindPatternsCall
    \/ FindStep
    \/ FindReturn
    \/ FinderReused

Spec == Init /\ [][Next]_vars

---------------------------------------------------------------------------
(* What the claims about find_patterns speak of. *)

\* The start offsets, in symbols from 0, of the literal occurrences of p in t.
Occurrences(p, t) ==
    {k \in 0..(Len(t) - Len(p)) : \A j \in 1..Len(p) : t[k + j] = p[j]}

\* The elements of a finite set of numbers in increasing order.
RECURSIVE Ascending(_)
Ascending(set) ==
    IF set = {} THEN <<>>
    ELSE LET m == CHOOSE x \in set : \A y \in set : x <= y
         IN  <<m>> \o Ascending(set \ {m})

Occurring(P, t) == {p \in P : Occurrences(p, t) # {}}

ExpectedMap(P, t) == [p \in Occurring(P, t) |-> Ascending(Occurrences(p, t))]

\* The list without the later copies of a pattern.
RECURSIVE Dedup(_)
Dedup(list) ==
    IF list = <<>> THEN <<>>
    ELSE LET front == Dedup(SubSeq(list, 1, Len(list) - 1))
             last == list[Len(list)]
         IN  IF last \in Range(front) THEN front ELSE Append(front, last)

\* One fixed order of a pattern set.
Canonical(P) == AnyOrder(P)

StrictlyIncreasing(s) == \A k \in 1..(Len(s) - 1) : s[k] < s[k + 1]

HasDuplicate(list) == Len(list) > Cardinality(Range(list))

---------------------------------------------------------------------------
\* C1: when find_patterns has returned, the map lists for each pattern of
\* the list exactly the start offsets of its occurrences in the text, each
\* once, and nothing else.
C1_AllOccurrences ==
    pc = "done" => result = ExpectedMap(Range(patterns), text)

\* C2: a match of p recorded at the symbol with 0-based symbol index i is
\* recorded at offset i + 1 - (number of symbols of p).
C2_OffsetsInSymbols ==
    [][(pc = "finding" /\ pc' = "finding") =>
        \A p \in DOMAIN result' :
            Len(result'[p]) > (IF p \in DOMAIN result THEN Len(result[p]) ELSE 0)
            => result'[p][Len(result'[p])] = pos - Len(p)]_vars

\* C3: find_patterns never fails: at every step the subtraction
\* 1 + i - length(p) stays at or above zero for every pattern about to be
\* recorded, and the call never panics.
C3_NoUnderflow ==
    /\ pc # "panicked"
    /\ (pc = "finding" /\ pos <= Len(text)) =>
        LET new_state == NextState(states, state, text[pos])
        IN  new_state # None =>
                \A p \in states[new_state].output :
                    1 + CharIndex(text, pos) - StrLen(p) >= 0

\* C4: with the empty string among the patterns, the empty pattern is
\* recorded at offset i + 1 for every position i of the text.
C4_EmptyPatternEverywhere ==
    (pc = "done" /\ <<>> \in Range(patterns)) =>
        /\ <<>> \in DOMAIN result \/ text = <<>>
        /\ <<>> \in DOMAIN result => result[<<>>] = [k \in 1..Len(text) |-> k]

\* C5: a pattern list with repeated patterns gives the result of the list
\* with each pattern supplied once (and fails where that list fails).
C5_DuplicatesCollapse ==
    LET once == FindPatterns(PatternFinderNew(Dedup(patterns)), text)
    IN  /\ pc = "done" => result = once.result
        /\ pc = "panicked" => once.overflow

C5_Witness ==
    /\ pc = "done"
    /\ HasDuplicate(patterns)
    /\ \E p \in DOMAIN result :
        /\ Len(result[p]) >= 2
        /\ \E j, k \in DOMAIN patterns : j # k /\ patterns[j] = p /\ patterns[k] = p

\* C6: in the returned map every offset list is strictly increasing.
C6_StrictlyIncreasing ==
    pc = "done" => \A p \in DOMAIN result : StrictlyIncreasing(result[p])

\* C7: the keys of the returned map are exactly the patterns that occur in
\* the text, and no key maps to an empty list.
C7_KeysAreOccurring ==
    pc = "done" =>
        /\ DOMAIN result = Occurring(Range(patterns), text)
        /\ \A p \in DOMAIN result : result[p] # <<>>

\* C8: the result depends on the pattern set and the text alone: whatever
\* the order of insertion and of the visits of children, it is the result of
\* the finder built from the set in one fixed order.
C8_Deterministic ==
    LET fixed == FindPatterns(PatternFinderNew(Canonical(Range(patterns))), text)
    IN  /\ pc = "done" => result = fixed.result
        /\ pc = "panicked" => fixed.overflow

C8_Witness ==
    /\ pc = "done"
    /\ Cardinality(Range(patterns)) >= 2
    /\ patterns # Canonical(Range(patterns))
    /\ \E s \in DOMAIN states : Cardinality(Children(states, s)) = 2
    /\ Cardinality(DOMAIN result) >= 2

---------------------------------------------------------------------------
(* BinarySearchTree.  A tree is its Option<Box<Node>>: <<>> for None, else *)
(* <<node>> with node = [item, left, right].                               *)

MaxItem == 5

Items == 1..MaxItem

\* Node::new
NewNode(item) == [item |-> item, left |-> <<>>, right |-> <<>>]

\* BinarySearchTree::insert
RECURSIVE Insert(_, _)
Insert(t, item) ==
    IF t # <<>>
    THEN LET node == t[1]
         IN  IF item > node.item
             THEN <<[node EXCEPT !.right = Insert(node.right, item)]>>
             ELSE IF item < node.item
             THEN <<[node EXCEPT !.left = Insert(node.left, item)]>>
             ELSE t
    ELSE <<NewNode(item)>>

RECURSIVE FindAndDeleteMinDropsRight(_)
FindAndDeleteMinDropsRight(t) ==
    IF t[1].left # <<>>
    THEN LET r == FindAndDeleteMinDropsRight(t[1].left)
         IN  [tree |-> <<[t[1] EXCEPT !.left = r.tree]>>, item |-> r.item]
    ELSE [tree |-> <<>>, item |-> t[1].item]

\* BinarySearchTree::find_and_delete_min: the tree left and the item returned.
RECURSIVE FindAndDeleteMin(_)
FindAndDeleteMin(t) ==
    IF t[1].left # <<>>
    THEN LET r == FindAndDeleteMin(t[1].left)
         IN  [tree |-> <<[t[1] EXCEPT !.left = r.tree]>>, item |-> r.item]
    ELSE [tree |-> t[1].right, item |-> t[1].item]

\* BinarySearchTree::delete_node
DeleteNode(t) ==
    LET node == t[1]
    IN  IF node.left # <<>> /\ node.right # <<>>
        THEN LET r == FindAndDeleteMin(node.right)
             IN  <<[node EXCEPT !.item = r.item, !.right = r.tree]>>
        ELSE IF node.left # <<>> THEN node.left
        ELSE IF node.right # <<>> THEN node.right
        ELSE <<>>

\* BinarySearchTree::delete
RECURSIVE Delete(_, _)
Delete(t, item) ==
    IF t # <<>>
    THEN LET node == t[1]
         IN  IF item > node.item
             THEN <<[node EXCEPT !.right = Delete(node.right, item)]>>
             ELSE IF item < node.item
             THEN <<[node EXCEPT !.left = Delete(node.left, item)]>>
             ELSE DeleteNode(t)
    ELSE t

\* BinarySearchTree::contains
RECURSIVE Contains(_, _)
Contains(t, item) ==
    IF t # <<>>
    THEN LET node == t[1]
         IN  IF item > node.item THEN Contains(node.right, item)
             ELSE IF item < node.item THEN Contains(node.left, item)
             ELSE TRUE
    ELSE FALSE

InitBST == IdleAC /\ IdleBST /\ IdleSort

BstInsert ==
    /\ \E item \in Items :
        /\ bst' = Insert(bst, item)
        /\ bst_op' = [op |-> "insert", item |-> item, before |-> bst, found |-> FALSE]
        /\ inserted' = inserted \cup {item}
    /\ UNCHANGED <<acVars, sortVars>>

BstDelete ==
    /\ \E item \in Items :
        /\ bst' = Delete(bst, item)
        /\ bst_op' = [op |-> "delete", item |-> item, before |-> bst, found |-> FALSE]
        /\ inserted' = inserted \ {item}
    /\ UNCHANGED <<acVars, sortVars>>

BstContains ==
    /\ \E item \in Items :
        bst_op' = [op |-> "contains", item |-> item, before |-> bst,
                   found |-> Contains(bst, item)]
    /\ UNCHANGED <<bst, inserted, acVars, sortVars>>

NextBST ==
    \/ BstInsert
    \/ BstDelete
    \/ BstContains

SpecBST == InitBST /\ [][NextBST]_vars

\* The subtree whose root holds item, as contains() walks to it.
RECURSIVE Subtree(_, _)
Subtree(t, item) ==
    IF t = <<>> THEN <<>>
    ELSE IF item > t[1].item THEN Subtree(t[1].right, item)
    ELSE IF item < t[1].item THEN Subtree(t[1].left, item)
    ELSE t

\* C9: the tree is the set of the items inserted and not deleted since:
\* contains answers membership in it, insert adds its item and delete removes
\* its item and nothing else, and inserting a present item or deleting an
\* absent one leaves the tree as it was.
C9_BehavesAsSet ==
    /\ \A x \in Items : Contains(bst, x) <=> x \in inserted
    /\ bst_op.op = "contains" =>
        /\ bst_op.found <=> bst_op.item \in inserted
        /\ bst = bst_op.before
    /\ bst_op.op = "insert" =>
        /\ \A x \in Items :
            Contains(bst, x) <=> (x = bst_op.item \/ Contains(bst_op.before, x))
        /\ Contains(bst_op.before, bst_op.item) => bst = bst_op.before
    /\ bst_op.op = "delete" =>
        /\ \A x \in Items :
            Contains(bst, x) <=> (x # bst_op.item /\ Contains(bst_op.before, x))
        /\ ~Contains(bst_op.before, bst_op.item) => bst = bst_op.before

\* A node with two children was deleted, its successor taken from below the
\* right child.
C9_Witness ==
    /\ bst_op.op = "delete"
    /\ LET t == Subtree(bst_op.before, bst_op.item)
       IN  /\ t # <<>>
           /\ t[1].left # <<>>
           /\ t[1].right # <<>>
           /\ FindAndDeleteMin(t[1].right).tree # <<>>
           /\ t[1].right[1].left # <<>>
    /\ Cardinality(inserted) >= 4

---------------------------------------------------------------------------
(* The sorts.  A slice is a sequence; the code's indices run from 0.       *)

MaxSortLen == 4

MaxSortValue == 3

SortInputs == SeqsUpTo(1..MaxSortValue, MaxSortLen)

\* slice[i] with i from 0
At(v, i) == v[i + 1]

\* slice.swap(i, j) with i, j from 0
Swap(v, i, j) == [v EXCEPT ![i + 1] = v[j + 1], ![j + 1] = v[i + 1]]

\* slice[from..] with from counted from 0
From(v, from) == SubSeq(v, from + 1, Len(v))

\* result[at..].copy_from_slice(src)
CopyFromSlice(res, at, src) ==
    [k \in 1..Len(res) |-> IF k > at THEN src[k - at] ELSE res[k]]

\* merge: the while loop, then the copy of the rest.
RECURSIVE MergeLoop(_, _, _, _, _, _)
MergeLoop(left_vector, right_vector, res, left_id, right_id, insert_id) ==
    IF left_id < Len(left_vector) /\ right_id < Len(right_vector)
    THEN IF At(left_vector, left_id) < At(right_vector, right_id)
         THEN MergeLoop(left_vector, right_vector,
                        [res EXCEPT ![insert_id + 1] = At(left_vector, left_id)],
                        left_id + 1, right_id, insert_id + 1)
         ELSE MergeLoop(left_vector, right_vector,
                        [res EXCEPT ![insert_id + 1] = At(right_vector, right_id)],
                        left_id, right_id + 1, insert_id + 1)
    ELSE IF left_id < Len(left_vector)
         THEN CopyFromSlice(res, insert_id, From(left_vector, left_id))
         ELSE CopyFromSlice(res, insert_id, From(right_vector, right_id))

\* merge
Merge(left_vector, right_vector, res) ==
    MergeLoop(left_vector, right_vector, res, 0, 0, 0)

\* merge_sort
RECURSIVE MergeSort(_)
MergeSort(vector) ==
    LET mid == Len(vector) \div 2
    IN  IF mid = 0 THEN vector
        ELSE LET left == MergeSort(SubSeq(vector, 1, mid))
                 right == MergeSort(From(vector, mid))
                 intermediary_vector == left \o right
             IN  Merge(left, right, intermediary_vector)

\* partition: the for loop from j on.
RECURSIVE PartitionLoop(_, _, _, _)
PartitionLoop(vector, pivot, i, j) ==
    IF j >= Len(vector) - 1 THEN [vector |-> vector, i |-> i]
    ELSE IF At(vector, j) < pivot
         THEN PartitionLoop(Swap(vector, i, j), pivot, i + 1, j + 1)
         ELSE PartitionLoop(vector, pivot, i, j + 1)

\* partition that leaves the pivot at the end of the slice
PartitionPivotLeft(vector) ==
    LET pivot == At(vector, Len(vector) - 1)
        r == PartitionLoop(vector, pivot, 0, 0)
    IN  [vector |-> r.vector, q |-> r.i]

\* partition: the slice after it and the index returned.
Partition(vector) ==
    LET pivot == At(vector, Len(vector) - 1)
        r == PartitionLoop(vector, pivot, 0, 0)
        moved == [r.vector EXCEPT ![Len(vector)] = At(r.vector, r.i)]
    IN  [vector |-> [moved EXCEPT ![r.i + 1] = pivot], q |-> r.i]

\* random_partition, for the pivot_index gen_range gave.
RandomPartition(vector, pivot_index) ==
    Partition(Swap(vector, pivot_index, Len(vector) - 1))

\* InPlaceHeap::heapify
RECURSIVE Heapify(_, _, _)
Heapify(elements, heap_size, i) ==
    LET l == 2 * i + 1
        r == 2 * (i + 1)
        first == IF l < heap_size /\ At(elements, l) > At(elements, i) THEN l ELSE i
        largets_element ==
            IF r < heap_size /\ At(elements, r) > At(elements, first) THEN r ELSE first
    IN  IF largets_element # i
        THEN Heapify(Swap(elements, i, largets_element), heap_size, largets_element)
        ELSE elements

\* InPlaceHeap::build_heap: the for loop, i running down from size / 2 - 1.
RECURSIVE BuildHeapLoop(_, _)
BuildHeapLoop(elements, i) ==
    IF i < 0 THEN elements
    ELSE BuildHeapLoop(Heapify(elements, Len(elements), i), i - 1)

\* InPlaceHeap::build_heap
BuildHeap(vector) == BuildHeapLoop(vector, (Len(vector) \div 2) - 1)

\* InPlaceHeap::heap_sort
RECURSIVE HeapSortLoop(_, _)
HeapSortLoop(elements, heap_size) ==
    IF heap_size > 0
    THEN HeapSortLoop(Heapify(Swap(elements, 0, heap_size - 1), heap_size - 1, 0),
                      heap_size - 1)
    ELSE elements

\* heap_sort
HeapSort(vector) == HeapSortLoop(BuildHeap(vector), Len(vector))

InitSort ==
    /\ IdleAC
    /\ IdleBST
    /\ sort_pc = "idle"
    /\ sort_input \in SortInputs
    /\ sort_output = sort_input
    /\ sort_stack = <<>>
    /\ sort_calls = 0

MergeSortCall ==
    /\ sort_pc = "idle"
    /\ sort_output' = MergeSort(sort_output)
    /\ sort_pc' = "merge_sorted"
    /\ UNCHANGED <<sort_input, sort_stack, sort_calls, acVars, bstVars>>

HeapSortCall ==
    /\ sort_pc = "idle"
    /\ sort_output' = HeapSort(sort_output)
    /\ sort_pc' = "heap_sorted"
    /\ UNCHANGED <<sort_input, sort_stack, sort_calls, acVars, bstVars>>

\* quick_sort(&mut v): the call stack holds the call on the whole slice.
QuickSortCall ==
    /\ sort_pc = "idle"
    /\ sort_pc' = "quick_sort"
    /\ sort_stack' = <<[from |-> 0, to |-> Len(sort_output)]>>
    /\ UNCHANGED <<sort_input, sort_output, sort_calls, acVars, bstVars>>

\* The call on top of the stack is on a slice of fewer than 2 elements.
QuickSortShort ==
    /\ sort_pc = "quick_sort"
    /\ sort_stack # <<>>
    /\ Head(sort_stack).to - Head(sort_stack).from < 2
    /\ sort_stack' = Tail(sort_stack)
    /\ sort_calls' = sort_calls + 1
    /\ UNCHANGED <<sort_pc, sort_input, sort_output, acVars, bstVars>>

\* The call on top of the stack partitions its slice vector[from..to] around
\* any pivot, and calls quick_sort on vector[..q], then on vector[q + 1..].
QuickSortPartition ==
    /\ sort_pc = "quick_sort"
    /\ sort_stack # <<>>
    /\ LET from == Head(sort_stack).from
           to == Head(sort_stack).to
           vector == SubSeq(sort_output, from + 1, to)
       IN  /\ Len(vector) >= 2
           /\ \E pivot_index \in 0..(Len(vector) - 1) :
                LET p == RandomPartition(vector, pivot_index)
                IN  /\ sort_output' =
                        [k \in 1..Len(sort_output) |->
                            IF from < k /\ k <= to THEN p.vector[k - from]
                            ELSE sort_output[k]]
                    /\ sort_stack' =
                        <<[from |-> from, to |-> from + p.q],
                          [from |-> from + p.q + 1, to |-> to]>> \o Tail(sort_stack)
    /\ sort_calls' = sort_calls + 1
    /\ UNCHANGED <<sort_pc, sort_input, acVars, bstVars>>

\* No call is left: quick_sort returns.
QuickSortReturn ==
    /\ sort_pc = "quick_sort"
    /\ sort_stack = <<>>
    /\ sort_pc' = "quick_sorted"
    /\ UNCHANGED <<sort_input, sort_output, sort_stack, sort_calls, acVars, bstVars>>

NextSort ==
    \/ MergeSortCall
    \/ HeapSortCall
    \/ QuickSortCall
    \/ QuickSortShort
    \/ QuickSortPartition
    \/ QuickSortReturn

SpecSort == InitSort /\ [][NextSort]_vars

Sorted(v) == \A k \in 1..(Len(v) - 1) : v[k] <= v[k + 1]

Count(v, x) == Cardinality({k \in DOMAIN v : v[k] = x})

SameElements(v, w) ==
    /\ Len(v) = Len(w)
    /\ \A x \in Range(v) \cup Range(w) : Count(v, x) = Count(w, x)

Returned == sort_pc \in {"merge_sorted", "quick_sorted", "heap_sorted"}

\* C10: each sort terminates and leaves the slice in non-decreasing order,
\* holding the elements it held before the call, each as many times.
\* Termination: merge_sort and heap_sort return in the step that calls them;
\* a running quick_sort can always take its next step, and whatever the
\* pivots, quick_sort on n elements is entered at most 2n + 1 times.
C10_SortsSort ==
    /\ SameElements(sort_input, sort_output)
    /\ Returned => Sorted(sort_output)
    /\ sort_pc = "quick_sort" =>
        ENABLED (QuickSortShort \/ QuickSortPartition \/ QuickSortReturn)
    /\ sort_calls <= 2 * Len(sort_input) + 1

\* quick_sort has returned on a slice that was not sorted and repeats an
\* element.
C10_Witness ==
    /\ sort_pc = "quick_sorted"
    /\ ~Sorted(sort_input)
    /\ Len(sort_input) > Cardinality(Range(sort_input))
    /\ Len(sort_input) >= 3


---------------------------------------------------------------------------
(* What the claims about the automaton speak of. *)

\* The positions of the program at which new() has returned the finder.
AfterNew == {"built", "finding", "done", "panicked", "reusable"}

\* Those of them at which no call of find_patterns is running: new() has
\* just returned, or a call has and the next one can start.  A call changes
\* no state (FreshlyBuilt below), so what holds of the automaton here holds
\* during the calls too.
AtRest == {"built", "reusable"}

\* The state reached from s along the transitions spelling w, None if the
\* path leaves the trie.
RECURSIVE Walk(_, _, _)
Walk(S, s, w) ==
    IF w = <<>> THEN s
    ELSE IF Head(w) \in DOMAIN S[s].next_states
    THEN Walk(S, S[s].next_states[Head(w)], Tail(w))
    ELSE None

\* The state representing the word w.
StateOf(S, w) == Walk(S, Root, w)

\* The state with a transition to s.
Parent(S, s) == CHOOSE p \in DOMAIN S : s \in Children(S, p)

\* The word a state represents: the symbols on the path from the root.
RECURSIVE Word(_, _)
Word(S, s) ==
    IF s = Root THEN <<>>
    ELSE LET p == Parent(S, s)
             c == CHOOSE x \in DOMAIN S[p].next_states : S[p].next_states[x] = s
         IN  Append(Word(S, p), c)

Depth(S, s) == Len(Word(S, s))

\* The prefixes of the patterns of P, with the empty word the root stands for.
Prefixes(P) == {<<>>} \cup UNION {{SubSeq(p, 1, n) : n \in 0..Len(p)} : p \in P}

Suffixes(w) == {SubSeq(w, k, Len(w)) : k \in 1..(Len(w) + 1)}

ProperSuffixes(w) == Suffixes(w) \ {w}

Longest(W) == CHOOSE w \in W : \A v \in W : Len(v) <= Len(w)

\* The longest proper suffix of w among the words of the set prefixes; the
\* empty word when only the empty suffix is one.
FailWord(prefixes, w) == Longest(ProperSuffixes(w) \cap prefixes)

---------------------------------------------------------------------------
\* C11: after new() the states are the prefixes of the patterns, and the
\* fail link of every non-root state, representing w, is the state of the
\* longest proper suffix of w that is a prefix of a pattern: the root when
\* that suffix is empty.
C11_FailIsLongestSuffix ==
    pc \in AtRest =>
        LET prefixes == Prefixes(Range(patterns))
        IN  /\ \A w \in prefixes : StateOf(states, w) # None
            /\ \A s \in DOMAIN states :
                LET w == Word(states, s)
                IN  /\ w \in prefixes
                    /\ s # Root =>
                        states[s].fail_state = StateOf(states, FailWord(prefixes, w))

\* A state whose link is found one step down the failure chain of its
\* parent's link, and is not the root.
C11_Witness ==
    /\ pc = "built"
    /\ \E p \in DOMAIN states \ {Root} : \E s \in Children(states, p) :
        /\ states[p].fail_state # Root
        /\ states[s].value \notin DOMAIN states[states[p].fail_state].next_states
        /\ states[s].fail_state # Root

\* The failure chain of s: s, its fail link, that state's fail link, ...
RECURSIVE FailChain(_, _)
FailChain(S, s) ==
    IF S[s].fail_state = None THEN {s} ELSE {s} \cup FailChain(S, S[s].fail_state)

\* The patterns of P that end at state s.
EndsAt(P, S, s) == {p \in P : StateOf(S, p) = s}

\* C12: after new() every non-root state has a fail link and its output set
\* includes the output set of that state, and the output set of any state
\* holds every pattern ending at the state or at a state of its failure chain.
C12_OutputInherited ==
    pc \in AtRest =>
        /\ \A s \in DOMAIN states \ {Root} :
            /\ states[s].fail_state # None
            /\ states[states[s].fail_state].output \subseteq states[s].output
        /\ \A s \in DOMAIN states :
            LET chain == FailChain(states, s)
            IN  \A p \in Range(patterns) :
                    StateOf(states, p) \in chain => p \in states[s].output

\* A state that took over the patterns of a non-root fail target.
C12_Witness ==
    /\ pc = "built"
    /\ \E s \in DOMAIN states \ {Root} :
        /\ states[s].fail_state \notin {None, Root}
        /\ \E p \in states[states[s].fail_state].output : p # <<>>
        /\ EndsAt(Range(patterns), states, s) # {}
        /\ states[s].output # EndsAt(Range(patterns), states, s)

\* The state n fail links away from s; None when the links end before.
RECURSIVE FailSteps(_, _, _)
FailSteps(S, s, n) ==
    IF n = 0 \/ s = None THEN s ELSE FailSteps(S, S[s].fail_state, n - 1)

\* C13: after new() the root has no fail link, the fail link of every other
\* state leads to a state of strictly smaller depth, so from a state of depth
\* d the root is at most d links away, and a lookup by next_state from it
\* ends within d + 1 calls.
C13_FailDepthDecreases ==
    pc \in AtRest =>
        /\ states[Root].fail_state = None
        /\ \A s \in DOMAIN states \ {Root} :
            /\ states[s].fail_state # None
            /\ Depth(states, states[s].fail_state) < Depth(states, s)
        /\ \A s \in DOMAIN states :
            LET depth == Depth(states, s)
            IN  /\ \E n \in 0..depth : FailSteps(states, s, n) = Root
                /\ \A c \in Alphabet : NextStateCalls(states, s, c) <= depth + 1

\* A state of depth 3 whose chain has three links, and a lookup from it that
\* follows them all.
C13_Witness ==
    /\ pc = "built"
    /\ \E s \in DOMAIN states :
        /\ Depth(states, s) = 3
        /\ FailSteps(states, s, 2) # Root
        /\ FailSteps(states, s, 3) = Root
        /\ \E c \in Alphabet : NextStateCalls(states, s, c) = 4

\* No state was pushed on the queue twice, the root never, and once
\* set_fail_states has returned every other state was pushed.
EnqueuedOnce ==
    /\ CountOf(enqueued, Root) = 0
    /\ \A s \in DOMAIN states : CountOf(enqueued, s) <= 1
    /\ pc \in AfterNew => \A s \in DOMAIN states \ {Root} : CountOf(enqueued, s) = 1

\* The queue holds its states by depth, the shallowest in front and none
\* shallower than the state whose children are being visited.
QueueByDepth ==
    pc \in {"fail_root", "fail_loop"} =>
        /\ \A k \in DOMAIN queue : Depth(states, cur) <= Depth(states, queue[k])
        /\ \A j, k \in DOMAIN queue :
            j < k => Depth(states, queue[j]) <= Depth(states, queue[k])

\* A step of set_fail_states: a state is dequeued after the states less deep
\* and with its fail link set; a fail link is set to a state whose chain had
\* its links and outputs before the step; and no state of the chain of a link
\* already set changes its link or its output.
BreadthFirstStep ==
    /\ (cur' # cur /\ cur # None /\ cur' # None) =>
        /\ Depth(states, cur) <= Depth(states, cur')
        /\ states[cur'].fail_state # None
    /\ pc \in {"fail_root", "fail_loop"} =>
        \A c \in DOMAIN states :
            (states[c].fail_state = None /\ states'[c].fail_state # None) =>
                \A t \in FailChain(states', states'[c].fail_state) :
                    /\ t # c
                    /\ t # Root => states[t].fail_state # None
                    /\ states'[t] = states[t]
    /\ pc # "new" =>
        \A s \in DOMAIN states :
            states[s].fail_state # None =>
                \A t \in FailChain(states, s) :
                    /\ states'[t].fail_state = states[t].fail_state
                    /\ states'[t].output = states[t].output

\* C14: set_fail_states dequeues states in non-decreasing depth and pushes
\* every non-root state exactly once; a dequeued state has its fail link, and
\* when a child's link is set the target and the states of its failure chain
\* have the links and output sets they keep for good.
C14_BreadthFirst ==
    /\ [](EnqueuedOnce /\ QueueByDepth)
    /\ [][BreadthFirstStep]_vars

\* The for loop has set the links of the children of a state of depth 2,
\* to states other than the root, after four pushes.
C14_Witness ==
    /\ pc = "fail_loop"
    /\ todo = {}
    /\ Depth(states, cur) = 2
    /\ Children(states, cur) # {}
    /\ \A c \in Children(states, cur) : states[c].fail_state \notin {None, Root}
    /\ Cardinality(DOMAIN enqueued) >= 4

\* From the return of new() on the automaton is the one new() builds from
\* the pattern list, every link set, and a returned map is the map of a call
\* on that automaton.
FreshlyBuilt ==
    pc \in AfterNew =>
        LET fresh == PatternFinderNew(patterns)
        IN  /\ states = fresh
            /\ \A s \in DOMAIN states \ {Root} : states[s].fail_state # None
            /\ pc = "done" => result = FindPatterns(fresh, text).result
            /\ pc = "panicked" => FindPatterns(fresh, text).overflow

\* C15: find_patterns runs only on a finder that new() has returned, with
\* its fail links computed; no step from then on creates, removes or changes
\* a state, so after any number of calls the automaton is the freshly built
\* one and a call returns what it returns on a fresh finder.
C15_Frozen ==
    /\ [](pc \in {"finding", "done", "panicked", "reusable"} => pending = <<>>)
    /\ []FreshlyBuilt
    /\ [][(pc \in AfterNew) => (states' = states /\ patterns' = patterns)]_vars

\* A finder with links and outputs beyond the root's, after a call on it
\* has returned.
C15_Witness ==
    /\ pc = "reusable"
    /\ \E s \in DOMAIN states \ {Root} :
        /\ states[s].fail_state \notin {None, Root}
        /\ Cardinality(states[s].output) >= 2

\* The longest suffix of the first n symbols of t that is a prefix of a
\* pattern of P.
Matched(P, t, n) == Longest(Suffixes(SubSeq(t, 1, n)) \cap Prefixes(P))

\* C16: while find_patterns runs and when it has returned, the current state
\* is the state of the longest suffix of the consumed text that is a prefix
\* of a pattern, the root when that suffix is empty.
C16_StateIsLongestSuffix ==
    pc \in {"finding", "done"} =>
        state = StateOf(states, Matched(Range(patterns), text, pos - 1))

\* Three symbols consumed: at the second one next_state found no state from
\* a state other than the root, and the third one matched again.
C16_Witness ==
    /\ pc = "finding"
    /\ pos = 4
    /\ Matched(Range(patterns), text, 1) # <<>>
    /\ Matched(Range(patterns), text, 2) = <<>>
    /\ state # Root

===========================================================================
